---- MODULE Spec2Model ----
(***************************************************************************)
(* GerakAI PDF extractor (src/file_extraction.py).                         *)
(*                                                                         *)
(* The state is the process-wide status store `file_status`, the S3        *)
(* bucket, the temporary files and directories on disk, and the background *)
(* tasks FastAPI has been handed by the /upload handler.  Every background *)
(* task runs process_pdf_multiprocess in its own thread; the steps of one  *)
(* run are the points at which another thread or a /status query can       *)
(* observe it.                                                             *)
(***************************************************************************)
EXTENDS Integers, Sequences, FiniteSets, TLC

\* ------------------------------------------------------------------ bounds
\* pages of the largest uploaded document
MaxPages == 2
\* largest value of the MAX_WORKERS setting
MaxWorkers == 2
\* lines of the longest text handed to extract_keywords_from_text on its own
MaxLines == 3

VARIABLES
    file_status,   \* dict filename -> "processing" | "done" | "failed"
    storage,       \* the bucket: dict s3 key -> uploaded JSON document
    tmpfiles,      \* paths of the temporary PDFs that exist on disk
    tmpdirs,       \* tasks whose TemporaryDirectory exists on disk
    tasks,         \* background tasks, in the order /upload added them
    next_tmp,      \* temporary PDFs created so far (names are never reused)
    MAX_WORKERS    \* the pool size read from the environment at import

vars == <<file_status, storage, tmpfiles, tmpdirs, tasks, next_tmp, MAX_WORKERS>>

\* ------------------------------------------------------------ dictionaries
None == "None"

EmptyDict == <<>>

Get(d, k) == IF k \in DOMAIN d THEN d[k] ELSE None

Put(d, k, v) == [x \in (DOMAIN d) \cup {k} |-> IF x = k THEN v ELSE d[x]]

\* ----------------------------------------------------------------- strings
\* A filename is the sequence of its characters.
Str_pdf == <<".", "p", "d", "f">>
Str_json == <<".", "j", "s", "o", "n">>

FN_a_pdf == <<"a", ".", "p", "d", "f">>
FN_a_PDF == <<"a", ".", "P", "D", "F">>
FN_a_txt == <<"a", ".", "t", "x", "t">>

\* the filenames a client submits
Filenames == {FN_a_pdf, FN_a_PDF, FN_a_txt}

\* str.lower() on one character
LowerChar(c) ==
    CASE c = "P" -> "p"
      [] c = "D" -> "d"
      [] c = "F" -> "f"
      [] c = "A" -> "a"
      [] c = "T" -> "t"
      [] c = "X" -> "x"
      [] OTHER -> c

\* str.lower()
lower(s) == [i \in 1..Len(s) |-> LowerChar(s[i])]

\* str.endswith(suffix)
endswith(s, suffix) ==
    /\ Len(suffix) <= Len(s)
    /\ SubSeq(s, Len(s) - Len(suffix) + 1, Len(s)) = suffix

\* index of the last "." of p, 0 when there is none (str.rfind, 1-based)
LastDot(p) ==
    IF \E i \in 1..Len(p) : p[i] = "."
    THEN CHOOSE i \in 1..Len(p) : p[i] = "." /\ \A j \in (i+1)..Len(p) : p[j] # "."
    ELSE 0

\* os.path.splitext(p)[0] for a name without directory separators: the part
\* before the last dot, unless the name has only leading dots before it
splitext_root(p) ==
    LET dot == LastDot(p) IN
    IF dot > 0 /\ \E i \in 1..(dot - 1) : p[i] # "."
    THEN SubSeq(p, 1, dot - 1)
    ELSE p

\* s3_key with the extension left in place
s3_key_KeepExtension(filename) == filename \o Str_json

\* lines 115-116: the S3 key of a filename
s3_key(filename) == splitext_root(filename) \o Str_json

\* ---------------------------------------------------------- keyword matcher
KEYWORDS == <<
    "Event Type Code", "Capacity", "Estimated Attendance", "Number of Gates",
    "Attendance Ratio", "Parking Capacity", "Nearby Public Transport",
    "Transport Modes Count", "Transport Max Capacity", "Transport Cancelled Count",
    "VIP Zones Flag", "Number of Restrooms", "Number of Food Courts",
    "Number of First Aid Stations", "Number of Emergency Exits", "Weather Severity",
    "Celebrity Arrival", "VIP Attending", "Road Closure Expected", "Congestion Risk" >>

\* the default of the threshold parameter of extract_keywords_from_text
DefaultThreshold == 70

\* fuzz.partial_ratio(keyword.lower(), line.lower()), the score (0..100) of the
\* rapidfuzz library.  The matcher uses a score only by comparing it with the
\* threshold, so the model fixes the score of each pair of a keyword and a
\* line of the texts below by this table: scores above, at and below the
\* default threshold occur, and a pair that is not listed scores 0.
partial_ratio(keyword, line) ==
    CASE keyword = "Capacity" /\ line = "Capacity: 5000 persons" -> 100
      [] keyword = "Parking Capacity" /\ line = "Capacity: 5000 persons" -> 67
      [] keyword = "VIP Attending" /\ line = "  VlP Attending: Yes " -> 92
      [] keyword = "VIP Attending" /\ line = "VIP Attending: No" -> 100
      [] keyword = "Capacity" /\ line = " capacity 12" -> 100
      [] keyword = "Parking Capacity" /\ line = " capacity 12" -> 70
      [] OTHER -> 0

\* str.strip() on the lines of the documents below
strip(line) ==
    CASE line = "  VlP Attending: Yes " -> "VlP Attending: Yes"
      [] line = " capacity 12" -> "capacity 12"
      [] OTHER -> line

\* ScanKeywords with the comparison of line 67 strict
RECURSIVE ScanKeywords_Strict(_, _, _, _, _)
ScanKeywords_Strict(extracted, line, keywords, threshold, k) ==
    IF k > Len(keywords) THEN extracted
    ELSE ScanKeywords_Strict(
            IF partial_ratio(keywords[k], line) > threshold
            THEN Put(extracted, keywords[k], strip(line))
            ELSE extracted,
            line, keywords, threshold, k + 1)

\* ScanKeywords with a keyword that already has a line keeping it
RECURSIVE ScanKeywords_KeepFirst(_, _, _, _, _)
ScanKeywords_KeepFirst(extracted, line, keywords, threshold, k) ==
    IF k > Len(keywords) THEN extracted
    ELSE ScanKeywords_KeepFirst(
            IF partial_ratio(keywords[k], line) >= threshold /\ keywords[k] \notin DOMAIN extracted
            THEN Put(extracted, keywords[k], strip(line))
            ELSE extracted,
            line, keywords, threshold, k + 1)

\* lines 66-68: the inner loop, over keywords[k..], for one line
RECURSIVE ScanKeywords(_, _, _, _, _)
ScanKeywords(extracted, line, keywords, threshold, k) ==
    IF k > Len(keywords) THEN extracted
    ELSE ScanKeywords(
            IF partial_ratio(keywords[k], line) >= threshold
            THEN Put(extracted, keywords[k], strip(line))
            ELSE extracted,
            line, keywords, threshold, k + 1)

\* lines 65-68: the outer loop, over lines[n..]
RECURSIVE ScanLines(_, _, _, _, _)
ScanLines(extracted, lines, keywords, threshold, n) ==
    IF n > Len(lines) THEN extracted
    ELSE ScanLines(ScanKeywords(extracted, lines[n], keywords, threshold, 1),
                   lines, keywords, threshold, n + 1)

\* a text is the sequence of its lines (text.split("\n"))
extract_keywords_from_text(text, keywords, threshold) ==
    ScanLines(EmptyDict, text, keywords, threshold, 1)

\* --------------------------------------------------------------- documents
\* An uploaded payload is 0, bytes that are no PDF, or n >= 1, a PDF of n
\* pages.  The text on page p is the same in every document.
Docs == 0..MaxPages

Texts == <<
    <<"Capacity: 5000 persons">>,
    <<"  VlP Attending: Yes ", "hello">>,
    <<" capacity 12", "Capacity: 5000 persons", "">> >>

\* ocr_page on the image of page p
ocr_page(p) == Texts[((p - 1) % Len(Texts)) + 1]

\* the names NamedTemporaryFile gives the temporary PDFs, in the order it
\* hands them out: a behaviour holds at most this many uploads that reach
\* line 144, so at most two runs, which may share a filename or not
TmpNames == <<"tmp1.pdf", "tmp2.pdf">>

\* ------------------------------------------------------------------- tasks
\* One background task: the arguments of process_pdf_multiprocess, the place
\* its thread has reached, its locals, and a record of what it has done.
\*   filename, pdf_path  the arguments (line 152)
\*   doc                 the payload saved at pdf_path
\*   pc                  where the run is
\*   exc                 the exception being propagated, or None
\*   failed_in           the stage of the run that raised, or None
\*   pages               the futures of executor.map, one per page image
\*                       (dropped with the other locals when the run returns)
\*   page_texts          line 91
\*   extracted_data      lines 82, 96
\*   writes              the values this run has assigned to file_status[filename]
\*   uploads             calls of s3_client.upload_fileobj by this run
\*   removes             calls of os.remove(pdf_path) by this run
NewTask(filename, pdf_path, doc) ==
    [filename |-> filename, pdf_path |-> pdf_path, doc |-> doc,
     pc |-> "pending", exc |-> None, failed_in |-> None,
     pages |-> <<>>, page_texts |-> <<>>, extracted_data |-> <<>>,
     writes |-> <<>>, uploads |-> 0, removes |-> 0]

Terminal == {"done", "failed"}

Running(t) == {p \in DOMAIN t.pages : t.pages[p] = "running"}

\* SetStatus with one status for the whole process instead of one per
\* filename: the assignment reaches every entry
SetStatus_Global(i, value, pc) ==
    /\ file_status' = [x \in (DOMAIN file_status) \cup {tasks[i].filename} |-> value]
    /\ tasks' = [tasks EXCEPT ![i].writes = Append(@, value), ![i].pc = pc]

\* file_status[filename] = value, by task i, which moves on to pc
SetStatus(i, value, pc) ==
    /\ file_status' = Put(file_status, tasks[i].filename, value)
    /\ tasks' = [tasks EXCEPT ![i].writes = Append(@, value), ![i].pc = pc]

Init ==
    /\ file_status = EmptyDict
    /\ storage = EmptyDict
    /\ tmpfiles = {}
    /\ tmpdirs = {}
    /\ tasks = <<>>
    /\ next_tmp = 0
    /\ MAX_WORKERS \in 1..MaxWorkers

\* ----------------------------------------------------------------- /upload
\* IsPdfName with the `not` of line 140 missing
IsPdfName_Inverted(filename) == ~endswith(lower(filename), Str_pdf)

\* line 140: the filename is accepted
IsPdfName(filename) == endswith(lower(filename), Str_pdf)

\* lines 140-141: the handler raises HTTP 400 and does nothing else
UploadRejected(filename) ==
    /\ ~IsPdfName(filename)
    /\ UNCHANGED <<file_status, storage, tmpfiles, tmpdirs, tasks, next_tmp, MAX_WORKERS>>

\* lines 143-149: reading or writing the payload raises and the handler
\* raises HTTP 500.  The temporary file was created with delete=False: it
\* stays behind.  (When NamedTemporaryFile itself raises, no file exists and
\* the call changes nothing: a stuttering step.)
UploadSaveFailed(filename) ==
    /\ IsPdfName(filename)
    /\ next_tmp < Len(TmpNames)
    /\ next_tmp' = next_tmp + 1
    /\ tmpfiles' = tmpfiles \cup {TmpNames[next_tmp + 1]}
    /\ UNCHANGED <<file_status, storage, tmpdirs, tasks, MAX_WORKERS>>

\* UploadAccepted with a status entered for the filename at submission
UploadAccepted_Queued(filename, doc) ==
    /\ IsPdfName(filename)
    /\ next_tmp < Len(TmpNames)
    /\ next_tmp' = next_tmp + 1
    /\ tmpfiles' = tmpfiles \cup {TmpNames[next_tmp + 1]}
    /\ tasks' = Append(tasks, NewTask(filename, TmpNames[next_tmp + 1], doc))
    /\ file_status' = Put(file_status, filename, "queued")
    /\ UNCHANGED <<storage, tmpdirs, MAX_WORKERS>>

\* lines 143-154: the payload is saved and the background task is added
UploadAccepted(filename, doc) ==
    /\ IsPdfName(filename)
    /\ next_tmp < Len(TmpNames)
    /\ next_tmp' = next_tmp + 1
    /\ tmpfiles' = tmpfiles \cup {TmpNames[next_tmp + 1]}
    /\ tasks' = Append(tasks, NewTask(filename, TmpNames[next_tmp + 1], doc))
    /\ UNCHANGED <<file_status, storage, tmpdirs, MAX_WORKERS>>

\* lines 138-154: one call of the handler
upload(filename) ==
    \/ UploadRejected(filename)
    \/ UploadSaveFailed(filename)
    \/ \E doc \in Docs : UploadAccepted(filename, doc)

\* ----------------------------------------------------------------- /status
\* line 160: HTTP 404
NotFound == "404 File not found"

\* lines 156-161: the status of a filename, or 404
status(filename) ==
    LET st == Get(file_status, filename) IN
    IF st = None \/ st = "" THEN NotFound ELSE st

\* The only store of the process is file_status (lines 46-47): the assembled
\* result is a local of the run (line 112), and no statement keeps a mapping
\* from filename to result.  A result query has this, empty, store to read.
result_store == EmptyDict

get_result(filename) == Get(result_store, filename)

\* ------------------------------------------------ process_pdf_multiprocess
\* Start without the assignment of line 81
Start_Silent(i) ==
    /\ tasks[i].pc = "pending"
    /\ tasks' = [tasks EXCEPT ![i].pc = "tmpdir"]
    /\ UNCHANGED <<file_status, storage, tmpfiles, tmpdirs, next_tmp, MAX_WORKERS>>

\* lines 81-82: the background task starts
Start(i) ==
    /\ tasks[i].pc = "pending"
    /\ SetStatus(i, "processing", "tmpdir")
    /\ UNCHANGED <<storage, tmpfiles, tmpdirs, next_tmp, MAX_WORKERS>>

\* Raise with the directory made without the with statement: an exception
\* leaves it behind
Raise_LeaveTmpdir(i, exc, stage) ==
    /\ tasks' = [tasks EXCEPT ![i].pc = "except", ![i].exc = exc, ![i].failed_in = stage]
    /\ UNCHANGED tmpdirs

\* the run leaves the try block of lines 84-96 with exception exc, raised in
\* stage; the with statement of line 85 removes the temporary directory on
\* the way
Raise(i, exc, stage) ==
    /\ tasks' = [tasks EXCEPT ![i].pc = "except", ![i].exc = exc, ![i].failed_in = stage]
    /\ tmpdirs' = tmpdirs \ {i}

\* line 85: tempfile.TemporaryDirectory() makes the directory, or raises
EnterTmpdir(i) ==
    /\ tasks[i].pc = "tmpdir"
    /\ \/ /\ tmpdirs' = tmpdirs \cup {i}
          /\ tasks' = [tasks EXCEPT ![i].pc = "raster"]
       \/ Raise(i, "Exception", "tmpdir")
    /\ UNCHANGED <<file_status, storage, tmpfiles, next_tmp, MAX_WORKERS>>

\* what convert_from_path can do with a payload
RasterOutcomes(doc) ==
    IF doc = 0
    THEN {"PDFPageCountError", "PDFInfoNotInstalledError"}
    ELSE {"ok", "PDFInfoNotInstalledError", "Exception"}

\* Rasterize with a failure of convert_from_path swallowed: the run goes on
\* with no images
Rasterize_Swallow(i) ==
    /\ tasks[i].pc = "raster"
    /\ \E out \in RasterOutcomes(tasks[i].doc) :
          IF out = "ok"
          THEN tasks' = [tasks EXCEPT ![i].pc = "ocr",
                                      ![i].pages = [p \in 1..tasks[i].doc |-> "queued"]]
          ELSE tasks' = [tasks EXCEPT ![i].pc = "ocr", ![i].failed_in = "rasterize"]
    /\ UNCHANGED <<file_status, storage, tmpfiles, tmpdirs, next_tmp, MAX_WORKERS>>

\* lines 86-91: convert_from_path writes one image per page, and executor.map
\* submits one ocr_page call per image; or convert_from_path raises
Rasterize(i) ==
    /\ tasks[i].pc = "raster"
    /\ \E out \in RasterOutcomes(tasks[i].doc) :
          IF out = "ok"
          THEN /\ tasks' = [tasks EXCEPT ![i].pc = "ocr",
                                         ![i].pages = [p \in 1..tasks[i].doc |-> "queued"]]
               /\ UNCHANGED tmpdirs
          ELSE Raise(i, out, "rasterize")
    /\ UNCHANGED <<file_status, storage, tmpfiles, next_tmp, MAX_WORKERS>>

\* a free worker process of the pool takes the next call off the queue
WorkerStart(i, p) ==
    /\ tasks[i].pc \in {"ocr", "shutdown"}
    /\ p \in DOMAIN tasks[i].pages
    /\ tasks[i].pages[p] = "queued"
    /\ \A q \in 1..(p - 1) : tasks[i].pages[q] # "queued"
    /\ Cardinality(Running(tasks[i])) < MAX_WORKERS
    /\ tasks' = [tasks EXCEPT ![i].pages[p] = "running"]
    /\ UNCHANGED <<file_status, storage, tmpfiles, tmpdirs, next_tmp, MAX_WORKERS>>

\* lines 71-77: ocr_page returns the text of its page, or raises
WorkerFinish(i, p) ==
    /\ tasks[i].pc \in {"ocr", "shutdown"}
    /\ p \in DOMAIN tasks[i].pages
    /\ tasks[i].pages[p] = "running"
    /\ \E out \in {"ok", "raised"} : tasks' = [tasks EXCEPT ![i].pages[p] = out]
    /\ UNCHANGED <<file_status, storage, tmpfiles, tmpdirs, next_tmp, MAX_WORKERS>>

\* Collect with the pages whose call raised left out of the list instead of
\* the exception being propagated
Collect_SkipFailed(i) ==
    LET t == tasks[i]
        good == {p \in DOMAIN t.pages : t.pages[p] = "ok"}
        texts == [p \in DOMAIN t.pages |-> IF p \in good THEN <<ocr_page(p)>> ELSE <<>>]
        Flat[n \in 0..Len(t.pages)] == IF n = 0 THEN <<>> ELSE Flat[n - 1] \o texts[n]
    IN
    /\ t.pc = "ocr"
    /\ \A p \in DOMAIN t.pages : t.pages[p] \in {"ok", "raised"}
    /\ tasks' = [tasks EXCEPT ![i].pc = "match", ![i].page_texts = Flat[Len(t.pages)]]
    /\ UNCHANGED <<file_status, storage, tmpfiles, tmpdirs, next_tmp, MAX_WORKERS>>

\* Collect with the results taken as the calls complete instead of in page
\* order: with more than one worker process any order can come out
Collect_AsCompleted(i) ==
    LET t == tasks[i]
        n == Len(t.pages)
        Orders == IF MAX_WORKERS = 1
                  THEN {[p \in 1..n |-> p]}
                  ELSE {o \in [1..n -> 1..n] : \A p, q \in 1..n : o[p] = o[q] => p = q}
    IN
    /\ t.pc = "ocr"
    /\ \A p \in DOMAIN t.pages : t.pages[p] = "ok"
    /\ \E o \in Orders :
          tasks' = [tasks EXCEPT ![i].pc = "match",
                                 ![i].page_texts = [p \in 1..n |-> ocr_page(o[p])]]
    /\ UNCHANGED <<file_status, storage, tmpfiles, tmpdirs, next_tmp, MAX_WORKERS>>

\* line 91: list(executor.map(...)) takes the results in page order.  It
\* returns when every call has returned; it raises when the first call, in
\* page order, that raised is reached, and the calls still queued are
\* cancelled.
Collect(i) ==
    LET t == tasks[i] IN
    /\ t.pc = "ocr"
    /\ \/ /\ \A p \in DOMAIN t.pages : t.pages[p] = "ok"
          /\ tasks' = [tasks EXCEPT ![i].pc = "match",
                                    ![i].page_texts = [p \in DOMAIN t.pages |-> ocr_page(p)]]
       \/ /\ \E p \in DOMAIN t.pages :
                /\ t.pages[p] = "raised"
                /\ \A q \in 1..(p - 1) : t.pages[q] = "ok"
          /\ tasks' = [tasks EXCEPT ![i].pc = "shutdown",
                                    ![i].pages = [p \in DOMAIN t.pages |->
                                        IF t.pages[p] = "queued" THEN "cancelled" ELSE t.pages[p]]]
    /\ UNCHANGED <<file_status, storage, tmpfiles, tmpdirs, next_tmp, MAX_WORKERS>>

\* line 90: leaving the with block of the executor waits for the calls that
\* are running; then the exception leaves the try block
Shutdown(i) ==
    /\ tasks[i].pc = "shutdown"
    /\ Running(tasks[i]) = {}
    /\ Raise(i, "Exception", "ocr")
    /\ UNCHANGED <<file_status, storage, tmpfiles, next_tmp, MAX_WORKERS>>

\* Match with the status set to done as soon as the result is assembled,
\* before it is uploaded
Match_MarkDone(i) ==
    LET t == tasks[i] IN
    /\ t.pc = "match"
    /\ tasks' = [tasks EXCEPT ![i].pc = "upload",
                              ![i].writes = Append(@, "done"),
                              ![i].extracted_data = [p \in DOMAIN t.page_texts |->
                                  extract_keywords_from_text(t.page_texts[p], KEYWORDS, DefaultThreshold)]]
    /\ file_status' = Put(file_status, t.filename, "done")
    /\ tmpdirs' = tmpdirs \ {i}
    /\ UNCHANGED <<storage, tmpfiles, next_tmp, MAX_WORKERS>>

\* lines 94-96, and the end of the with block of line 85
Match(i) ==
    LET t == tasks[i] IN
    /\ t.pc = "match"
    /\ tasks' = [tasks EXCEPT ![i].pc = "upload",
                              ![i].extracted_data = [p \in DOMAIN t.page_texts |->
                                  extract_keywords_from_text(t.page_texts[p], KEYWORDS, DefaultThreshold)]]
    /\ tmpdirs' = tmpdirs \ {i}
    /\ UNCHANGED <<file_status, storage, tmpfiles, next_tmp, MAX_WORKERS>>

\* ExceptClause without the catch-all clause of line 106
ExceptClause_NoCatchAll(exc) ==
    CASE exc = "PDFInfoNotInstalledError" -> "failed"
      [] exc = "PDFPageCountError" -> "failed"
      [] OTHER -> "uncaught"

\* lines 98-109: the except clause an exception of the first try block
\* reaches, named by the status it assigns
ExceptClause(exc) ==
    CASE exc = "PDFInfoNotInstalledError" -> "failed"
      [] exc = "PDFPageCountError" -> "failed"
      [] OTHER -> "failed"

\* AfterExcept with the return statements missing: the run falls through to
\* line 111
AfterExcept_FallThrough == "upload"

\* lines 101, 105, 109: where the run goes after the except clause
AfterExcept == "returned"

\* lines 98-109
Except(i) ==
    /\ tasks[i].pc = "except"
    /\ IF ExceptClause(tasks[i].exc) = "uncaught"
       THEN /\ tasks' = [tasks EXCEPT ![i].pc = "uncaught"]
            /\ UNCHANGED file_status
       ELSE /\ file_status' = Put(file_status, tasks[i].filename, ExceptClause(tasks[i].exc))
            /\ tasks' = [tasks EXCEPT ![i].writes = Append(@, ExceptClause(tasks[i].exc)),
                                      ![i].pc = AfterExcept, ![i].exc = None,
                                      ![i].pages = IF AfterExcept = "returned" THEN <<>> ELSE @]
    /\ UNCHANGED <<storage, tmpfiles, tmpdirs, next_tmp, MAX_WORKERS>>

\* line 112
json_data(t) == [filename |-> t.filename, pages |-> t.extracted_data]

\* lines 112-127: the result is serialized and upload_fileobj is called; it
\* stores the object, or raises
Upload(i) ==
    LET t == tasks[i] IN
    /\ t.pc = "upload"
    /\ \/ /\ storage' = Put(storage, s3_key(t.filename), json_data(t))
          /\ tasks' = [tasks EXCEPT ![i].pc = "uploaded", ![i].uploads = @ + 1]
       \/ /\ UNCHANGED storage
          /\ tasks' = [tasks EXCEPT ![i].pc = "upload_except", ![i].uploads = @ + 1,
                                    ![i].exc = "Exception", ![i].failed_in = "upload"]
    /\ UNCHANGED <<file_status, tmpfiles, tmpdirs, next_tmp, MAX_WORKERS>>

\* lines 128-129
MarkDone(i) ==
    /\ tasks[i].pc = "uploaded"
    /\ SetStatus(i, "done", "finally")
    /\ UNCHANGED <<storage, tmpfiles, tmpdirs, next_tmp, MAX_WORKERS>>

\* UploadExcept with the upload tried again instead of the run giving up
UploadExcept_Retry(i) ==
    /\ tasks[i].pc = "upload_except"
    /\ tasks' = [tasks EXCEPT ![i].pc = "upload", ![i].exc = None]
    /\ UNCHANGED <<file_status, storage, tmpfiles, tmpdirs, next_tmp, MAX_WORKERS>>

\* lines 130-132
UploadExcept(i) ==
    /\ tasks[i].pc = "upload_except"
    /\ file_status' = Put(file_status, tasks[i].filename, "failed")
    /\ tasks' = [tasks EXCEPT ![i].writes = Append(@, "failed"),
                              ![i].pc = "finally", ![i].exc = None]
    /\ UNCHANGED <<storage, tmpfiles, tmpdirs, next_tmp, MAX_WORKERS>>

\* lines 133-136
Finally(i) ==
    /\ tasks[i].pc = "finally"
    /\ IF tasks[i].pdf_path \in tmpfiles
       THEN /\ tmpfiles' = tmpfiles \ {tasks[i].pdf_path}
            /\ tasks' = [tasks EXCEPT ![i].pc = "returned", ![i].pages = <<>>,
                                      ![i].removes = @ + 1]
       ELSE /\ UNCHANGED tmpfiles
            /\ tasks' = [tasks EXCEPT ![i].pc = "returned", ![i].pages = <<>>]
    /\ UNCHANGED <<file_status, storage, tmpdirs, next_tmp, MAX_WORKERS>>

\* lines 79-136: one step of the run of task i
process_pdf_multiprocess(i) ==
    \/ Start(i)
    \/ EnterTmpdir(i)
    \/ Rasterize(i)
    \/ \E p \in 1..MaxPages : WorkerStart(i, p)
    \/ \E p \in 1..MaxPages : WorkerFinish(i, p)
    \/ Collect(i)
    \/ Shutdown(i)
    \/ Match(i)
    \/ Except(i)
    \/ Upload(i)
    \/ MarkDone(i)
    \/ UploadExcept(i)
    \/ Finally(i)

Next ==
    \/ \E filename \in Filenames : UploadRejected(filename)
    \/ \E filename \in Filenames : UploadSaveFailed(filename)
    \/ \E filename \in Filenames, doc \in Docs : UploadAccepted(filename, doc)
    \/ \E i \in DOMAIN tasks : Start(i)
    \/ \E i \in DOMAIN tasks : EnterTmpdir(i)
    \/ \E i \in DOMAIN tasks : Rasterize(i)
    \/ \E i \in DOMAIN tasks, p \in 1..MaxPages : WorkerStart(i, p)
    \/ \E i \in DOMAIN tasks, p \in 1..MaxPages : WorkerFinish(i, p)
    \/ \E i \in DOMAIN tasks : Collect(i)
    \/ \E i \in DOMAIN tasks : Shutdown(i)
    \/ \E i \in DOMAIN tasks : Match(i)
    \/ \E i \in DOMAIN tasks : Except(i)
    \/ \E i \in DOMAIN tasks : Upload(i)
    \/ \E i \in DOMAIN tasks : MarkDone(i)
    \/ \E i \in DOMAIN tasks : UploadExcept(i)
    \/ \E i \in DOMAIN tasks : Finally(i)

Spec == Init /\ [][Next]_vars

\* Background tasks run in threads of the server's thread pool and their
\* ocr_page calls in worker processes: the operating system keeps scheduling
\* them, and every external call returns or raises.  So while some run can
\* take a step, some run eventually takes one.
Fairness == WF_vars(\E i \in DOMAIN tasks : process_pdf_multiprocess(i))

FairSpec == Spec /\ Fairness

\* ------------------------------------------- the keyword matcher on its own
\* The recognized text of a page is whatever the OCR engine reads off the
\* image.  To exercise extract_keywords_from_text on more texts than those of
\* the documents above, a run stands at line 94 with a one-page document
\* whose recognized text is any sequence of at most MaxLines of these lines,
\* and takes the step of lines 94-96.
Lines == {"Capacity: 5000 persons", " capacity 12", "  VlP Attending: Yes ",
          "VIP Attending: No", "hello", ""}

\* text.split("\n") of a text: at least one line
LineTexts == UNION {[1..n -> Lines] : n \in 1..MaxLines}

ExtractInit ==
    /\ file_status = Put(EmptyDict, FN_a_pdf, "processing")
    /\ storage = EmptyDict
    /\ tmpfiles = {TmpNames[1]}
    /\ tmpdirs = {1}
    /\ next_tmp = 1
    /\ MAX_WORKERS \in 1..MaxWorkers
    /\ \E text \in LineTexts :
          tasks = <<[NewTask(FN_a_pdf, TmpNames[1], 1) EXCEPT
                        !.pc = "match", !.pages = <<"ok">>, !.page_texts = <<text>>,
                        !.writes = <<"processing">>]>>

ExtractNext == \E i \in DOMAIN tasks : Match(i)

ExtractSpec == ExtractInit /\ [][ExtractNext]_vars

\* ================================================================== claims
TasksFor(ts, filename) == {i \in DOMAIN ts : ts[i].filename = filename}

Last(seq) == seq[Len(seq)]

\* rasterization, recognition and the storage upload of a run all succeeded
Succeeded(t) == t.failed_in = None /\ t.uploads = 1

\* base name of the filename plus ".json"
KeyOf(filename) == splitext_root(filename) \o Str_json

\* ---------------------------------------------------------------------- C1
\* C1 as stated: for every filename, once file_status[filename] is done or
\* failed, no later state has a different status for it, whatever is
\* submitted afterwards.
C1_Original ==
    [][\A f \in Filenames :
          Get(file_status, f) \in Terminal => Get(file_status', f) = Get(file_status, f)]_vars

\* C1 amended: for every filename of which at most one submission has been
\* accepted, once file_status[filename] is done or failed it never changes.
C1_TerminalStatusIsFinal ==
    [][\A f \in Filenames :
          (Get(file_status, f) \in Terminal /\ Cardinality(TasksFor(tasks', f)) <= 1)
              => Get(file_status', f) = Get(file_status, f)]_vars

\* a filename submitted once has a terminal status, its run has returned,
\* and the run of another filename is still at work
C1_Witness ==
    \E i, j \in DOMAIN tasks :
        /\ tasks[i].filename # tasks[j].filename
        /\ tasks[i].pc = "returned"
        /\ Get(file_status, tasks[i].filename) \in Terminal
        /\ tasks[j].pc \in {"ocr", "upload", "uploaded"}

C3_Original ==
    \A i \in DOMAIN tasks :
        tasks[i].pc = "returned"
            => /\ tasks[i].pdf_path \notin tmpfiles
               /\ tasks[i].removes = 1

\* ---------------------------------------------------------------------- C4
\* C4: a run whose rasterization fails sets the status of its filename to
\* failed and halts: it submits no page for recognition, matches no
\* keywords and makes no storage upload.
C4_RasterFailureHalts ==
    \A i \in DOMAIN tasks :
        tasks[i].failed_in = "rasterize"
            => /\ tasks[i].pc \in {"except", "returned"}
               /\ tasks[i].pages = <<>>
               /\ tasks[i].page_texts = <<>>
               /\ tasks[i].extracted_data = <<>>
               /\ tasks[i].uploads = 0
               /\ tasks[i].pc = "returned" => tasks[i].writes = <<"processing", "failed">>

\* the run of a payload that is no PDF has returned, status failed
C4_Witness ==
    \E i \in DOMAIN tasks :
        /\ tasks[i].doc = 0
        /\ tasks[i].failed_in = "rasterize"
        /\ tasks[i].pc = "returned"
        /\ Get(file_status, tasks[i].filename) = "failed"

\* ---------------------------------------------------------------------- C5
\* C5: a run in which the recognition of any page fails, whatever the other
\* pages' workers do and in whatever order they finish, sets the status to
\* failed and halts without an upload; and every object in the bucket holds
\* all the pages of the document of the run that uploaded it.
C5_RecognitionFailureHalts ==
    /\ \A i \in DOMAIN tasks :
           ((\E p \in DOMAIN tasks[i].pages : tasks[i].pages[p] = "raised")
               \/ tasks[i].failed_in = "ocr")
               => /\ tasks[i].pc \in {"ocr", "shutdown", "except", "returned"}
                  /\ tasks[i].extracted_data = <<>>
                  /\ tasks[i].uploads = 0
                  /\ tasks[i].pc = "returned" => tasks[i].writes = <<"processing", "failed">>
    /\ \A k \in DOMAIN storage :
           \E j \in DOMAIN tasks :
               /\ tasks[j].uploads = 1
               /\ storage[k] = json_data(tasks[j])
               /\ Len(storage[k].pages) = tasks[j].doc

\* page 1 of a two-page document failed while page 2 was recognized, and
\* the exception has left the try block
C5_Witness ==
    \E i \in DOMAIN tasks :
        /\ tasks[i].pc = "except"
        /\ tasks[i].failed_in = "ocr"
        /\ tasks[i].pages = <<"raised", "ok">>
        /\ KeyOf(tasks[i].filename) \notin DOMAIN storage

\* ---------------------------------------------------------------------- C6
\* C6: a run whose storage upload fails sets the status to failed, has made
\* exactly one upload attempt, and leaves no result behind for a result
\* query.
C6_UploadFailureIsTerminal ==
    \A i \in DOMAIN tasks :
        tasks[i].failed_in = "upload"
            => /\ tasks[i].pc \in {"upload_except", "finally", "returned"}
               /\ tasks[i].uploads = 1
               /\ tasks[i].pc \in {"finally", "returned"}
                      => tasks[i].writes = <<"processing", "failed">>
               /\ get_result(tasks[i].filename) = None

\* a run assembled a two-page result, its upload failed, and it has returned
C6_Witness ==
    \E i \in DOMAIN tasks :
        /\ tasks[i].failed_in = "upload"
        /\ tasks[i].pc = "returned"
        /\ Len(tasks[i].extracted_data) = 2
        /\ Get(file_status, tasks[i].filename) = "failed"

\* ---------------------------------------------------------------------- C7
Started(i) == i \in DOMAIN tasks /\ tasks[i].writes # <<>>

WroteTerminal(i) ==
    /\ i \in DOMAIN tasks
    /\ Len(tasks[i].writes) >= 2
    /\ Last(tasks[i].writes) \in Terminal

\* C7: every run that has written processing eventually writes done or
\* failed for its filename, and no exception of any stage leaves the
\* background task uncaught.  A run writes nothing after its terminal
\* status and there are finitely many runs, so "every started run
\* eventually writes a terminal status" is: again and again, every run that
\* has started has written one.
C7_RunsToTerminalStatus ==
    /\ []<>(\A i \in DOMAIN tasks : Started(i) => WroteTerminal(i))
    /\ [](\A i \in DOMAIN tasks : tasks[i].pc # "uncaught")

\* a run whose exception reached the catch-all clause has written failed
C7_Witness ==
    \E i \in DOMAIN tasks :
        /\ tasks[i].failed_in \in {"tmpdir", "ocr"}
        /\ tasks[i].pc = "returned"
        /\ tasks[i].writes = <<"processing", "failed">>

\* ---------------------------------------------------------------------- C8
\* C8: a status query for a filename answers not-found exactly when no run
\* for that filename has begun (a run that is scheduled but has not started
\* does not count), and otherwise one of processing, done, failed.
C8_StatusQuery ==
    \A f \in Filenames :
        /\ status(f) \in {NotFound, "processing", "done", "failed"}
        /\ (status(f) = NotFound)
               <=> ~\E i \in DOMAIN tasks : tasks[i].filename = f /\ tasks[i].pc # "pending"

\* one submission is accepted and not started, its filename is not found,
\* while another filename is processing
C8_Witness ==
    \E i, j \in DOMAIN tasks :
        /\ tasks[i].pc = "pending"
        /\ status(tasks[i].filename) = NotFound
        /\ status(tasks[j].filename) = "processing"

\* ---------------------------------------------------------------------- C9
\* the filename ends in ".pdf", whatever the case of its letters
C9_EndsInPdf(filename) == endswith(lower(filename), Str_pdf)

\* this step adds exactly one task, for filename, not yet started
C9_SchedulesOne(filename) ==
    /\ Len(tasks') = Len(tasks) + 1
    /\ SubSeq(tasks', 1, Len(tasks)) = tasks
    /\ Last(tasks').filename = filename
    /\ Last(tasks').pc = "pending"
    /\ Last(tasks').pdf_path \in tmpfiles' \ tmpfiles
    /\ UNCHANGED <<file_status, storage>>

\* the step changes the state and no task that exists: it is no step of a run
C9_HandlerStep ==
    /\ vars' # vars
    /\ Len(tasks') >= Len(tasks)
    /\ SubSeq(tasks', 1, Len(tasks)) = tasks

\* C9 as stated: a submission whose filename does not end in ".pdf" leaves
\* the state unchanged (no temporary file, no run, no registry entry), and a
\* submission whose filename ends in ".pdf" schedules exactly one run for it.
C9_Original ==
    [][C9_HandlerStep =>
          \A f \in Filenames :
              upload(f) => IF C9_EndsInPdf(f) THEN C9_SchedulesOne(f) ELSE UNCHANGED vars]_vars

\* C9 amended: a submission whose filename does not end in ".pdf" leaves the
\* state unchanged, and a submission whose filename ends in ".pdf" schedules
\* exactly one run for it when its payload is saved to the temporary file,
\* and no run, changing no registry entry, when saving the payload fails.
C9_SubmitSchedulesOneOrNone ==
    [][C9_HandlerStep =>
          \A f \in Filenames :
              upload(f) => IF C9_EndsInPdf(f)
                           THEN \/ C9_SchedulesOne(f)
                                \/ UNCHANGED <<tasks, file_status, storage>>
                           ELSE UNCHANGED vars]_vars

\* "a.PDF" has been accepted and its run is scheduled, and another
\* submission has failed while its payload was being saved
C9_Witness ==
    /\ Len(tasks) = 1
    /\ tasks[1].filename = FN_a_PDF
    /\ tasks[1].pc = "pending"
    /\ tasks[1].pdf_path \in tmpfiles
    /\ next_tmp = 2
    /\ file_status = EmptyDict

\* --------------------------------------------------------------------- C10
\* C10 as stated: in every reachable state, for every filename whose status
\* is done, the bucket holds under the base name of the filename plus
\* ".json" an Extraction Result whose filename field is that filename.
C10_Original ==
    \A f \in DOMAIN file_status :
        file_status[f] = "done"
            => /\ KeyOf(f) \in DOMAIN storage
               /\ storage[KeyOf(f)].filename = f

\* --------------------------------------------------------------------- C11
\* the keyword mappings of the pages of an n-page document, in page order
C11_Expected(n) ==
    [p \in 1..n |-> extract_keywords_from_text(ocr_page(p), KEYWORDS, DefaultThreshold)]

\* the run has left the recognition block with a result to upload
C11_Assembled(t) ==
    /\ t.pc \in {"upload", "uploaded", "upload_except", "finally", "returned"}
    /\ t.failed_in \in {None, "upload"}

\* C11: for every n-page document, every pool size and every order in which
\* the recognition workers finish, the recognized texts are n, the text at
\* index p is that of page p, and the assembled result has exactly n page
\* entries, entry p being the keyword mapping of the text of page p.  The
\* result is a function of the document alone, so pool size 1 and any larger
\* pool size give the same result.
C11_PageOrderPreserved ==
    \A i \in DOMAIN tasks :
        /\ tasks[i].page_texts # <<>>
               => /\ Len(tasks[i].page_texts) = tasks[i].doc
                  /\ \A p \in 1..tasks[i].doc : tasks[i].page_texts[p] = ocr_page(p)
        /\ C11_Assembled(tasks[i])
               => /\ Len(tasks[i].extracted_data) = tasks[i].doc
                  /\ tasks[i].extracted_data = C11_Expected(tasks[i].doc)
                  /\ json_data(tasks[i]).pages = C11_Expected(tasks[i].doc)

\* a pool of two workers has recognized a two-page document whose pages give
\* different mappings, and the result is assembled
C11_Witness ==
    \E i \in DOMAIN tasks :
        /\ MAX_WORKERS = 2
        /\ tasks[i].doc = 2
        /\ tasks[i].pc = "upload"
        /\ Len(tasks[i].extracted_data) = 2
        /\ tasks[i].extracted_data[1] # tasks[i].extracted_data[2]

\* --------------------------------------------------------------------- C12
\* the keywords of the list
C12_Keywords == {KEYWORDS[k] : k \in DOMAIN KEYWORDS}

\* the lines of text whose score for keyword reaches the threshold
C12_Hits(text, keyword, threshold) ==
    {n \in DOMAIN text : partial_ratio(keyword, text[n]) >= threshold}

\* C12: the mapping extract_keywords_from_text returns for a text has as its
\* keys exactly the keywords for which some line of the text scores at least
\* the threshold, a score equal to the threshold included; a keyword with no
\* such line is no key of the mapping, and the value of every key is a
\* trimmed line of the text, never a placeholder.
C12_KeysAreTheMatchedKeywords ==
    \A i \in DOMAIN tasks :
        tasks[i].pc = "upload" =>
            \A p \in DOMAIN tasks[i].page_texts :
                LET text == tasks[i].page_texts[p]
                    extracted == tasks[i].extracted_data[p]
                IN
                /\ DOMAIN extracted =
                       {kw \in C12_Keywords : C12_Hits(text, kw, DefaultThreshold) # {}}
                /\ \A kw \in DOMAIN extracted :
                       /\ extracted[kw] # None
                       /\ extracted[kw] \in {strip(text[n]) : n \in DOMAIN text}

\* the matcher has run on a text with a line that scores exactly the
\* threshold for one keyword, more for another, and less for all others
C12_Witness ==
    \E i \in DOMAIN tasks :
        /\ tasks[i].pc = "upload"
        /\ tasks[i].page_texts = << <<"hello", " capacity 12">> >>
        /\ partial_ratio("Parking Capacity", " capacity 12") = DefaultThreshold
        /\ DOMAIN tasks[i].extracted_data[1] = {"Capacity", "Parking Capacity"}

\* --------------------------------------------------------------------- C13
\* C13: when several lines of a text reach the threshold for a keyword, the
\* value extract_keywords_from_text records for the keyword is the last of
\* these lines in text order, trimmed, whichever of them scores highest.
C13_LastMatchingLineWins ==
    \A i \in DOMAIN tasks :
        tasks[i].pc = "upload" =>
            \A p \in DOMAIN tasks[i].page_texts :
                LET text == tasks[i].page_texts[p]
                    extracted == tasks[i].extracted_data[p]
                IN
                \A kw \in C12_Keywords :
                    LET hits == C12_Hits(text, kw, DefaultThreshold) IN
                    hits # {} =>
                        /\ kw \in DOMAIN extracted
                        /\ extracted[kw] =
                               strip(text[CHOOSE n \in hits : \A m \in hits : m <= n])

\* two lines reach the threshold for "VIP Attending", the earlier one with
\* the higher score, and the later one, trimmed, is the value recorded
C13_Witness ==
    \E i \in DOMAIN tasks :
        /\ tasks[i].pc = "upload"
        /\ tasks[i].page_texts = << <<"VIP Attending: No", "  VlP Attending: Yes ">> >>
        /\ partial_ratio("VIP Attending", "VIP Attending: No")
               > partial_ratio("VIP Attending", "  VlP Attending: Yes ")
        /\ partial_ratio("VIP Attending", "  VlP Attending: Yes ") >= DefaultThreshold
        /\ tasks[i].extracted_data[1]["VIP Attending"] = "VlP Attending: Yes"

\* --------------------------------------------------------------------- C14
\* the run of task i assigns nothing in this step, or assigns one value, which
\* is then the status of its filename
C14_WritesOnlyAppend(i) ==
    \/ tasks'[i].writes = tasks[i].writes
    \/ tasks'[i].writes = Append(tasks[i].writes, Get(file_status', tasks[i].filename))

\* C14: the values one run assigns to file_status[filename] are, in order,
\* processing and then exactly one of done and failed: a run that has
\* returned has assigned exactly these two, a run assigns nothing after its
\* terminal value, and so never done after failed or failed after done.
C14_ProcessingThenOneTerminal ==
    /\ [](\A i \in DOMAIN tasks :
             /\ tasks[i].writes \in {<<>>, <<"processing">>,
                                     <<"processing", "done">>, <<"processing", "failed">>}
             /\ tasks[i].pc = "pending" <=> tasks[i].writes = <<>>
             /\ tasks[i].pc = "returned" => Len(tasks[i].writes) = 2)
    /\ [][\A i \in DOMAIN tasks :
             /\ C14_WritesOnlyAppend(i)
             /\ WroteTerminal(i) => tasks'[i].writes = tasks[i].writes]_vars

\* one run has returned after processing and done, another after processing
\* and failed
C14_Witness ==
    \E i, j \in DOMAIN tasks :
        /\ tasks[i].pc = "returned"
        /\ tasks[i].writes = <<"processing", "done">>
        /\ tasks[j].pc = "returned"
        /\ tasks[j].writes = <<"processing", "failed">>

\* --------------------------------------------------------------------- C15
\* the status a run gives its filename when nothing else is running: done
\* when no stage of it has raised, failed when one has
C15_StatusAlone(t) == IF t.failed_in = None THEN "done" ELSE "failed"

\* C15: a run writes only the registry entry of its own filename.  A step of
\* the run of f changes no entry but that of f, so for runs of distinct
\* filenames f and g, however their steps interleave, no step of f's run
\* changes file_status[g]; the status of g is at every moment the value g's
\* own run assigned last, and its terminal status is the one the outcomes
\* of its own stages give, as when it runs alone.
C15_RunWritesOwnEntryOnly ==
    /\ [][file_status' # file_status =>
             \A i \in DOMAIN tasks :
                 tasks'[i] # tasks[i] =>
                     \A g \in Filenames \ {tasks[i].filename} :
                         Get(file_status', g) = Get(file_status, g)]_vars
    /\ [](\A i \in DOMAIN tasks :
             (TasksFor(tasks, tasks[i].filename) = {i} /\ tasks[i].writes # <<>>)
                 => /\ Get(file_status, tasks[i].filename) = Last(tasks[i].writes)
                    /\ WroteTerminal(i) => Last(tasks[i].writes) = C15_StatusAlone(tasks[i]))

\* the runs of two distinct filenames are both between their terminal write
\* and their return, one with done and one with failed
C15_Witness ==
    \E i, j \in DOMAIN tasks :
        /\ tasks[i].filename # tasks[j].filename
        /\ tasks[i].pc = "finally"
        /\ tasks[j].pc = "finally"
        /\ Get(file_status, tasks[i].filename) = "done"
        /\ Get(file_status, tasks[j].filename) = "failed"

\* --------------------------------------------------------------------- C16
\* the run has started and has not yet assigned its terminal status
C16_InProgress(t) ==
    t.pc \in {"tmpdir", "raster", "ocr", "shutdown", "match", "except",
              "upload", "uploaded", "upload_except"}

\* C16: for a run that is the only one of its filename, a status query
\* answers processing at every point from the start of the run until the
\* run assigns its terminal status; it answers done only when the storage
\* upload of the run has returned successfully, and failed only when a
\* stage of the run has raised.
C16_StatusFollowsProgress ==
    \A i \in DOMAIN tasks :
        TasksFor(tasks, tasks[i].filename) = {i}
            => /\ C16_InProgress(tasks[i]) => status(tasks[i].filename) = "processing"
               /\ status(tasks[i].filename) = "done"
                      => /\ tasks[i].uploads = 1
                         /\ tasks[i].failed_in = None
                         /\ tasks[i].pc \in {"finally", "returned"}
                         /\ KeyOf(tasks[i].filename) \in DOMAIN storage
               /\ status(tasks[i].filename) = "failed"
                      => /\ tasks[i].failed_in # None
                         /\ tasks[i].pc \in {"finally", "returned"}

\* the upload of the only run of a filename has returned successfully and
\* the run has not yet assigned done: the status is still processing
C16_Witness ==
    \E i \in DOMAIN tasks :
        /\ TasksFor(tasks, tasks[i].filename) = {i}
        /\ tasks[i].pc = "uploaded"
        /\ KeyOf(tasks[i].filename) \in DOMAIN storage
        /\ status(tasks[i].filename) = "processing"

\* --------------------------------------------------------------------- C17
\* the run is inside the with block of line 85
C17_InBlock(t) == t.pc \in {"raster", "ocr", "shutdown", "match"}

\* C17: the temporary directory of the page images exists only while the
\* run is inside the rasterization and recognition block: on every way out
\* of the block (the result assembled, rasterization raising, the
\* recognition of a page raising, any other exception) it is gone, so it is
\* gone before the run assigns its terminal status and before the run calls
\* the storage upload.
C17_TmpdirRemovedOnExit ==
    /\ tmpdirs \subseteq DOMAIN tasks
    /\ \A i \in DOMAIN tasks :
           /\ i \in tmpdirs => C17_InBlock(tasks[i])
           /\ i \in tmpdirs => tasks[i].writes = <<"processing">> /\ tasks[i].uploads = 0
           /\ tasks[i].pc \in {"except", "upload"} => i \notin tmpdirs

\* one run has left the block because the recognition of a page raised and
\* has not yet assigned failed, another has left it with its result and has
\* not yet called the upload: neither directory exists
C17_Witness ==
    \E i, j \in DOMAIN tasks :
        /\ tasks[i].pc = "except"
        /\ tasks[i].failed_in = "ocr"
        /\ tasks[i].writes = <<"processing">>
        /\ tasks[j].pc = "upload"
        /\ tasks[j].uploads = 0
        /\ tmpdirs = {}

====
